---- MODULE Spec2Model ----
(***************************************************************************)
(* The assistant bot of src/main.py: validated fields (Name, Phone,        *)
(* Birthday), Record, AddressBook, the upcoming-birthday query, the        *)
(* command layer behind input_error, pickle persistence and the command    *)
(* loop of main().                                                         *)
(*                                                                         *)
(* A Python str is a sequence of one-character strings; the character      *)
(* "U+0663" stands for the single code point ARABIC-INDIC DIGIT THREE.     *)
(* An operation that can raise returns a record whose field exc names the  *)
(* exception class ("" when it returns normally) together with the state   *)
(* it leaves behind.                                                       *)
(***************************************************************************)
EXTENDS Integers, Sequences, FiniteSets, TLC

VARIABLES
    book,       \* AddressBook.data, the records in dict (insertion) order
    rec,        \* a Record object driven directly through its methods
    pc,         \* main(): "start" | "loop" | "done" | "crashed"
    file,       \* addressbook.pkl: [exists, bytes]
    session,    \* number of the running process
    inputs,     \* lines read by input() in this process
    shutdown,   \* <<book>> as it was when the last process ended by close/exit
    last        \* the last call: what was called, on what, and what came back

vars == <<book, rec, pc, file, session, inputs, shutdown, last>>

-----------------------------------------------------------------------------
(* Bounds of the model *)

MaxPhones == 2      \* phones added to the record driven directly
MaxBookPhones == 1  \* phones of a record of a book a call starts from
MaxArgs == 3        \* length of an argument list handed to a command
MaxInputs == 2      \* lines read in one process
MaxSessions == 2    \* processes run one after the other

-----------------------------------------------------------------------------
(* Characters and strings *)

AsciiDigits == {"0", "1", "2", "3", "4", "5", "6", "7", "8", "9"}

\* Code points of category Nd: what \d matches in a str pattern.
DecimalDigits == AsciiDigits \cup {"U+0663"}

\* str.split() with no separator splits on runs of whitespace.
Whitespace == {" ", "\t", "\n"}

Rep(c, n) == [i \in 1..n |-> c]

RECURSIVE Join(_, _)
Join(words, sep) ==
    IF words = <<>> THEN <<>>
    ELSE IF Len(words) = 1 THEN words[1]
    ELSE words[1] \o sep \o Join(Tail(words), sep)

-----------------------------------------------------------------------------
(* Calendar dates: datetime.date as [y, m, d] *)

NoDate == [y |-> 0, m |-> 0, d |-> 0]       \* birthday = None

IsLeap(y) == (y % 4 = 0 /\ y % 100 # 0) \/ y % 400 = 0

DaysInMonth(y, m) ==
    IF m = 2 THEN (IF IsLeap(y) THEN 29 ELSE 28)
    ELSE IF m \in {4, 6, 9, 11} THEN 30 ELSE 31

RECURSIVE DaysBeforeMonth(_, _)
DaysBeforeMonth(y, m) ==
    IF m = 1 THEN 0 ELSE DaysBeforeMonth(y, m - 1) + DaysInMonth(y, m - 1)

DaysBeforeYear(y) ==
    365 * (y - 1) + ((y - 1) \div 4) - ((y - 1) \div 100) + ((y - 1) \div 400)

\* date.toordinal(): dates compare as their ordinals do.
toordinal(dt) == DaysBeforeYear(dt.y) + DaysBeforeMonth(dt.y, dt.m) + dt.d

\* date.replace(year=y): raises ValueError when the day does not exist in y.
replace_year(dt, y) ==
    IF dt.d > DaysInMonth(y, dt.m)
    THEN [exc |-> "ValueError", msg |-> "day is out of range for month", val |-> dt]
    ELSE [exc |-> "", msg |-> "", val |-> [dt EXCEPT !.y = y]]

-----------------------------------------------------------------------------
(* Validated fields *)

PhoneLen == 10

\* Phone.validate: re.match(r"^\d{10}$", phone) is not None.  \d is any
\* decimal digit and $ matches at the end or before a final newline.
Phone_validate(phone) ==
    /\ Len(phone) >= PhoneLen
    /\ \A i \in 1..PhoneLen : phone[i] \in DecimalDigits
    /\ \/ Len(phone) = PhoneLen
       \/ Len(phone) = PhoneLen + 1 /\ phone[PhoneLen + 1] = "\n"

RECURSIVE SplitOn(_, _, _)
\* the fields of s between occurrences of sep; cur is the field being read
SplitOn(s, sep, cur) ==
    IF s = <<>> THEN <<cur>>
    ELSE IF s[1] = sep THEN <<cur>> \o SplitOn(Tail(s), sep, <<>>)
    ELSE SplitOn(Tail(s), sep, Append(cur, s[1]))

DigitVal(c) ==
    CASE c = "0" -> 0 [] c = "1" -> 1 [] c = "2" -> 2 [] c = "3" -> 3
      [] c = "4" -> 4 [] c = "5" -> 5 [] c = "6" -> 6 [] c = "7" -> 7
      [] c = "8" -> 8 [] c = "9" -> 9 [] OTHER -> 0

RECURSIVE IntOf(_)
IntOf(f) ==
    IF f = <<>> THEN 0 ELSE 10 * IntOf(SubSeq(f, 1, Len(f) - 1)) + DigitVal(f[Len(f)])

AllAscii(f) == \A i \in 1..Len(f) : f[i] \in AsciiDigits

\* %d: 3[0-1]|[1-2]\d|0[1-9]|[1-9]| [1-9]
IsDayField(f) ==
    \/ Len(f) \in {1, 2} /\ AllAscii(f) /\ IntOf(f) \in 1..31
    \/ Len(f) = 2 /\ f[1] = " " /\ f[2] \in AsciiDigits \ {"0"}

\* %m: 1[0-2]|0[1-9]|[1-9]
IsMonthField(f) == Len(f) \in {1, 2} /\ AllAscii(f) /\ IntOf(f) \in 1..12

\* %Y: \d\d\d\d, and date() wants a year from MINYEAR = 1
IsYearField(f) == Len(f) = 4 /\ AllAscii(f) /\ IntOf(f) >= 1

DayOf(f) == IF f[1] = " " THEN DigitVal(f[2]) ELSE IntOf(f)

\* Birthday.__init__: datetime.strptime(value, "%d.%m.%Y").date(), every
\* failure becoming ValueError("Invalid date format. Use DD.MM.YYYY").
Birthday(value) ==
    LET fs == SplitOn(value, ".", <<>>)
        good == /\ Len(fs) = 3
                /\ IsDayField(fs[1]) /\ IsMonthField(fs[2]) /\ IsYearField(fs[3])
                /\ DayOf(fs[1]) <= DaysInMonth(IntOf(fs[3]), IntOf(fs[2]))
    IN  IF good
        THEN [exc |-> "", msg |-> "",
              val |-> [y |-> IntOf(fs[3]), m |-> IntOf(fs[2]), d |-> DayOf(fs[1])]]
        ELSE [exc |-> "ValueError", msg |-> "Invalid date format. Use DD.MM.YYYY",
              val |-> NoDate]

-----------------------------------------------------------------------------
(* Record *)

\* Record.__init__: Name(name) raises on an empty name.
Record(name) ==
    IF name = <<>>
    THEN [exc |-> "ValueError", msg |-> "Name cannot be empty.",
          rec |-> [name |-> name, phones |-> <<>>, birthday |-> NoDate]]
    ELSE [exc |-> "", msg |-> "",
          rec |-> [name |-> name, phones |-> <<>>, birthday |-> NoDate]]

Record_add_phone(r, phone) ==
    IF Phone_validate(phone)
    THEN [exc |-> "", msg |-> "", rec |-> [r EXCEPT !.phones = Append(@, phone)]]
    ELSE [exc |-> "ValueError", msg |-> "Invalid phone number format.", rec |-> r]

RECURSIVE Without(_, _)
Without(phones, phone) ==
    IF phones = <<>> THEN <<>>
    ELSE IF phones[1] = phone THEN Without(Tail(phones), phone)
    ELSE <<phones[1]>> \o Without(Tail(phones), phone)

Record_remove_phone(r, phone) ==
    [exc |-> "", msg |-> "", rec |-> [r EXCEPT !.phones = Without(@, phone)]]

\* index of the first phone equal to phone, 0 when there is none
FirstIndex(phones, phone) ==
    IF \E i \in 1..Len(phones) : phones[i] = phone
    THEN CHOOSE i \in 1..Len(phones) :
            /\ phones[i] = phone
            /\ \A j \in 1..(i - 1) : phones[j] # phone
    ELSE 0

Record_edit_phone(r, old_phone, new_phone) ==
    LET i == FirstIndex(r.phones, old_phone)
    IN  IF i = 0
        THEN [exc |-> "ValueError", msg |-> "Phone number not found.", rec |-> r]
        ELSE IF ~Phone_validate(new_phone)
        THEN [exc |-> "ValueError", msg |-> "Invalid phone number format.", rec |-> r]
        ELSE [exc |-> "", msg |-> "", rec |-> [r EXCEPT !.phones[i] = new_phone]]

\* the phone found, <<>> standing for None (no stored phone is empty)
Record_find_phone(r, phone) ==
    IF FirstIndex(r.phones, phone) = 0 THEN <<>> ELSE r.phones[FirstIndex(r.phones, phone)]

Record_add_birthday(r, birthday) ==
    LET b == Birthday(birthday)
    IN  IF b.exc # "" THEN [exc |-> b.exc, msg |-> b.msg, rec |-> r]
        ELSE [exc |-> "", msg |-> "", rec |-> [r EXCEPT !.birthday = b.val]]

-----------------------------------------------------------------------------
(* AddressBook: a dict keyed by record.name.value, kept in insertion order *)

\* AddressBook.find as a position: 0 stands for None
AddressBook_find(b, name) ==
    IF \E i \in 1..Len(b) : b[i].name = name
    THEN CHOOSE i \in 1..Len(b) : b[i].name = name
    ELSE 0

\* self.data[key] = record keeps the position of a key already present
AddressBook_add_record(b, r) ==
    IF AddressBook_find(b, r.name) = 0 THEN Append(b, r)
    ELSE [b EXCEPT ![AddressBook_find(b, r.name)] = r]

RemoveAt(b, i) == SubSeq(b, 1, i - 1) \o SubSeq(b, i + 1, Len(b))

\* delete as self.data.pop(name, None) would do it: a missing name is no error
AddressBook_delete_silent(b, name) ==
    IF AddressBook_find(b, name) # 0
    THEN [exc |-> "", msg |-> "", book |-> RemoveAt(b, AddressBook_find(b, name))]
    ELSE [exc |-> "", msg |-> "", book |-> b]

AddressBook_delete(b, name) ==
    IF AddressBook_find(b, name) # 0
    THEN [exc |-> "", msg |-> "", book |-> RemoveAt(b, AddressBook_find(b, name))]
    ELSE [exc |-> "ValueError", msg |-> "Record not found.", book |-> b]

-----------------------------------------------------------------------------
(* get_upcoming_birthdays, with datetime.today().date() as a parameter *)

WindowDays == 7

RECURSIVE get_upcoming_birthdays(_, _)
get_upcoming_birthdays(records, today) ==
    IF records = <<>> THEN [exc |-> "", msg |-> "", val |-> <<>>]
    ELSE LET record == records[1]
             this_year == replace_year(record.birthday, today.y)
             next_birthday ==
                 IF this_year.exc # "" THEN this_year
                 ELSE IF toordinal(this_year.val) < toordinal(today)
                 THEN replace_year(this_year.val, today.y + 1)
                 ELSE this_year
             rest == get_upcoming_birthdays(Tail(records), today)
         IN  IF record.birthday = NoDate THEN rest
             ELSE IF next_birthday.exc # ""
             THEN [exc |-> next_birthday.exc, msg |-> next_birthday.msg, val |-> <<>>]
             ELSE IF rest.exc # "" THEN rest
             ELSE IF /\ toordinal(today) <= toordinal(next_birthday.val)
                     /\ toordinal(next_birthday.val) <= toordinal(today) + WindowDays
             THEN [rest EXCEPT !.val = <<record>> \o @]
             ELSE rest

-----------------------------------------------------------------------------
(* The command layer.  A command yields [exc, msg, out, book]: the string   *)
(* it returns (out) or the exception it raises (exc, msg), and the book as  *)
(* it leaves it.  out.text is the fixed part of the returned string,        *)
(* out.phones and out.recs the values formatted into it.                    *)

Str(text) == [text |-> text, phones |-> <<>>, recs |-> <<>>]

NoOut == Str("")

Returns(out, b) == [exc |-> "", msg |-> "", out |-> out, book |-> b]

Raises(exc, msg, b) == [exc |-> exc, msg |-> msg, out |-> NoOut, book |-> b]

\* the decorator with except ValueError alone
input_error_value_only(r) ==
    IF r.exc \in {"ValueError"} THEN Returns(Str(r.msg), r.book) ELSE r

\* the decorator: except (ValueError, IndexError) as e: return str(e)
input_error(r) ==
    IF r.exc \in {"ValueError", "IndexError"} THEN Returns(Str(r.msg), r.book) ELSE r

\* record.add_phone(phone) on the record at position i of the book
AddPhoneAt(b, i, phone) ==
    LET r == Record_add_phone(b[i], phone)
    IN  [exc |-> r.exc, msg |-> r.msg, book |-> [b EXCEPT ![i] = r.rec]]

add_contact_func(args, b) ==
    IF Len(args) < 2
    THEN Raises("ValueError", "not enough values to unpack", b)
    ELSE LET name == args[1]
             phone == args[2]
             found == AddressBook_find(b, name)
             made == Record(name)
             b1 == IF found = 0 THEN AddressBook_add_record(b, made.rec) ELSE b
             message == IF found = 0 THEN "Contact added." ELSE "Contact updated."
             added == AddPhoneAt(b1, AddressBook_find(b1, name), phone)
         IN  IF found = 0 /\ made.exc # "" THEN Raises(made.exc, made.msg, b)
             ELSE IF phone = <<>> THEN Returns(Str(message), b1)
             ELSE IF added.exc # "" THEN Raises(added.exc, added.msg, added.book)
             ELSE Returns(Str(message), added.book)

add_contact(args, b) == input_error(add_contact_func(args, b))

change_phone_func(args, b) ==
    IF Len(args) < 3 THEN Raises("ValueError", "not enough values to unpack", b)
    ELSE IF Len(args) > 3 THEN Raises("ValueError", "too many values to unpack", b)
    ELSE LET i == AddressBook_find(b, args[1])
             r == Record_edit_phone(b[i], args[2], args[3])
         IN  IF i = 0 THEN Raises("ValueError", "Contact not found.", b)
             ELSE IF r.exc # "" THEN Raises(r.exc, r.msg, [b EXCEPT ![i] = r.rec])
             ELSE Returns(Str("Phone number updated."), [b EXCEPT ![i] = r.rec])

change_phone(args, b) == input_error(change_phone_func(args, b))

show_phones_func(args, b) ==
    IF args = <<>> THEN Raises("IndexError", "list index out of range", b)
    ELSE LET i == AddressBook_find(b, args[1])
         IN  IF i = 0 THEN Raises("ValueError", "Contact not found.", b)
             ELSE IF b[i].phones # <<>>
             THEN Returns([text |-> "Phones: ", phones |-> b[i].phones, recs |-> <<>>], b)
             ELSE Returns(Str("No phones found."), b)

show_phones(args, b) == input_error(show_phones_func(args, b))

add_birthday_func(args, b) ==
    IF Len(args) < 2 THEN Raises("ValueError", "not enough values to unpack", b)
    ELSE IF Len(args) > 2 THEN Raises("ValueError", "too many values to unpack", b)
    ELSE LET i == AddressBook_find(b, args[1])
             r == Record_add_birthday(b[i], args[2])
         IN  IF i = 0 THEN Raises("ValueError", "Contact not found.", b)
             ELSE IF r.exc # "" THEN Raises(r.exc, r.msg, [b EXCEPT ![i] = r.rec])
             ELSE Returns(Str("Birthday added."), [b EXCEPT ![i] = r.rec])

add_birthday(args, b) == input_error(add_birthday_func(args, b))

show_birthday_func(args, b) ==
    IF args = <<>> THEN Raises("IndexError", "list index out of range", b)
    ELSE LET i == AddressBook_find(b, args[1])
         IN  IF i = 0 THEN Raises("ValueError", "Contact not found.", b)
             ELSE IF b[i].birthday # NoDate
             THEN Returns([text |-> "Birthday: ", phones |-> <<>>, recs |-> <<b[i]>>], b)
             ELSE Returns(Str("No birthday set."), b)

show_birthday(args, b) == input_error(show_birthday_func(args, b))

birthdays_func(args, b, today) ==
    LET upcoming == get_upcoming_birthdays(b, today)
    IN  IF upcoming.exc # "" THEN Raises(upcoming.exc, upcoming.msg, b)
        ELSE IF upcoming.val # <<>>
        THEN Returns([text |-> "name: birthday", phones |-> <<>>, recs |-> upcoming.val], b)
        ELSE Returns(Str("No upcoming birthdays."), b)

birthdays(args, b, today) == input_error(birthdays_func(args, b, today))

delete_contact_func(args, b) ==
    IF args = <<>> THEN Raises("IndexError", "list index out of range", b)
    ELSE LET r == AddressBook_delete(b, args[1])
         IN  IF r.exc # "" THEN Raises(r.exc, r.msg, r.book)
             ELSE Returns(Str("Contact deleted."), r.book)

delete_contact(args, b) == input_error(delete_contact_func(args, b))

-----------------------------------------------------------------------------
(* Persistence: pickle as a stream of opcodes, one group per dict item *)

Opcode(op, str, dt) == [op |-> op, s |-> str, dt |-> dt]

RECURSIVE PicklePhones(_)
PicklePhones(phones) ==
    IF phones = <<>> THEN <<>>
    ELSE <<Opcode("PHONE", phones[1], NoDate)>> \o PicklePhones(Tail(phones))

RECURSIVE PickleItems(_)
PickleItems(b) ==
    IF b = <<>> THEN <<>>
    ELSE <<Opcode("NAME", b[1].name, NoDate)>>
         \o PicklePhones(b[1].phones)
         \o <<Opcode("BIRTHDAY", <<>>, b[1].birthday), Opcode("SETITEM", <<>>, NoDate)>>
         \o PickleItems(Tail(b))

\* a dump that loses Record.birthday
RECURSIVE PickleItemsNoBirthday(_)
PickleItemsNoBirthday(b) ==
    IF b = <<>> THEN <<>>
    ELSE <<Opcode("NAME", b[1].name, NoDate)>>
         \o PicklePhones(b[1].phones)
         \o <<Opcode("BIRTHDAY", <<>>, NoDate), Opcode("SETITEM", <<>>, NoDate)>>
         \o PickleItemsNoBirthday(Tail(b))

pickle_dump_no_birthday(b) ==
    <<Opcode("EMPTY_DICT", <<>>, NoDate)>> \o PickleItemsNoBirthday(b)
        \o <<Opcode("STOP", <<>>, NoDate)>>

\* pickle.dump(book, f)
pickle_dump(b) ==
    <<Opcode("EMPTY_DICT", <<>>, NoDate)>> \o PickleItems(b) \o <<Opcode("STOP", <<>>, NoDate)>>

RECURSIVE Unpickle(_, _, _)
\* the unpickler's run over ops: b the dict built so far, cur the record being built
Unpickle(ops, b, cur) ==
    IF ops = <<>>
    THEN [exc |-> "UnpicklingError", msg |-> "pickle data was truncated", val |-> <<>>]
    ELSE LET o == ops[1]
         IN  CASE o.op = "STOP" -> [exc |-> "", msg |-> "", val |-> b]
               [] o.op = "EMPTY_DICT" -> Unpickle(Tail(ops), <<>>, cur)
               [] o.op = "NAME" ->
                    Unpickle(Tail(ops), b,
                             [name |-> o.s, phones |-> <<>>, birthday |-> NoDate])
               [] o.op = "PHONE" ->
                    Unpickle(Tail(ops), b, [cur EXCEPT !.phones = Append(@, o.s)])
               [] o.op = "BIRTHDAY" ->
                    Unpickle(Tail(ops), b, [cur EXCEPT !.birthday = o.dt])
               [] o.op = "SETITEM" ->
                    Unpickle(Tail(ops), AddressBook_add_record(b, cur), cur)
               [] OTHER ->
                    [exc |-> "UnpicklingError", msg |-> "invalid load key", val |-> <<>>]

\* pickle.load(f)
pickle_load(bytes) ==
    IF bytes = <<>> THEN [exc |-> "EOFError", msg |-> "Ran out of input", val |-> <<>>]
    ELSE Unpickle(bytes, <<>>, [name |-> <<>>, phones |-> <<>>, birthday |-> NoDate])

NoFile == [exists |-> FALSE, bytes |-> <<>>]

\* save_data: open(filename, "wb") and pickle.dump
save_data(b) == [exists |-> TRUE, bytes |-> pickle_dump(b)]

\* open(filename, "rb") and pickle.load
open_and_load(f) ==
    IF ~f.exists
    THEN [exc |-> "FileNotFoundError", msg |-> "No such file or directory", val |-> <<>>]
    ELSE pickle_load(f.bytes)

\* load_data: except FileNotFoundError: return AddressBook()
load_data(f) ==
    LET r == open_and_load(f)
    IN  IF r.exc \in {"FileNotFoundError"} THEN [exc |-> "", msg |-> "", val |-> <<>>]
        ELSE r

-----------------------------------------------------------------------------
(* The command loop of main() *)

RECURSIVE split(_, _, _)
\* str.split(): the words of s from position i on; cur is the word being read
split(s, i, cur) ==
    IF i > Len(s) THEN (IF cur = <<>> THEN <<>> ELSE <<cur>>)
    ELSE IF s[i] \in Whitespace
    THEN (IF cur = <<>> THEN <<>> ELSE <<cur>>) \o split(s, i + 1, <<>>)
    ELSE split(s, i + 1, Append(cur, s[i]))

parse_input(user_input) == split(user_input, 1, <<>>)

W_close == <<"c", "l", "o", "s", "e">>
W_exit == <<"e", "x", "i", "t">>
W_hello == <<"h", "e", "l", "l", "o">>
W_add == <<"a", "d", "d">>
W_change == <<"c", "h", "a", "n", "g", "e">>
W_phone == <<"p", "h", "o", "n", "e">>
W_all == <<"a", "l", "l">>
W_add_birthday == <<"a", "d", "d", "-", "b", "i", "r", "t", "h", "d", "a", "y">>
W_show_birthday == <<"s", "h", "o", "w", "-", "b", "i", "r", "t", "h", "d", "a", "y">>
W_birthdays == <<"b", "i", "r", "t", "h", "d", "a", "y", "s">>
W_delete == <<"d", "e", "l", "e", "t", "e">>

\* what a command call means for the loop: print its string, or die of its exception
Printed(r, f) ==
    [exc |-> r.exc, msg |-> r.msg, out |-> r.out, book |-> r.book, file |-> f,
     stop |-> FALSE]

\* one iteration of while True: on the line input() returned
main_loop(user_input, b, f, today) ==
    LET words == parse_input(user_input)
        command == words[1]
        args == Tail(words)
    IN  IF words = <<>>
        THEN Printed(Raises("ValueError", "not enough values to unpack", b), f)
        ELSE CASE command \in {W_close, W_exit} ->
                    [exc |-> "", msg |-> "", out |-> Str("Good bye!"), book |-> b,
                     file |-> save_data(b), stop |-> TRUE]
               [] command = W_hello -> Printed(Returns(Str("How can I help you?"), b), f)
               [] command = W_add -> Printed(add_contact(args, b), f)
               [] command = W_change -> Printed(change_phone(args, b), f)
               [] command = W_phone -> Printed(show_phones(args, b), f)
               [] command = W_all ->
                    Printed(Returns([text |-> "Contact name: ", phones |-> <<>>,
                                     recs |-> b], b), f)
               [] command = W_add_birthday -> Printed(add_birthday(args, b), f)
               [] command = W_show_birthday -> Printed(show_birthday(args, b), f)
               [] command = W_birthdays -> Printed(birthdays(args, b, today), f)
               [] command = W_delete -> Printed(delete_contact(args, b), f)
               [] OTHER -> Printed(Returns(Str("Invalid command."), b), f)

-----------------------------------------------------------------------------
(* Inputs the calls are made with *)

Al == <<"A", "l">>
Bo == <<"B", "o">>

P1 == Rep("1", 10)                          \* ten ASCII digits
P2 == Rep("2", 10)
PArabic == Rep("U+0663", 10)                \* ten ARABIC-INDIC DIGIT THREE
PNewline == Rep("1", 10) \o <<"\n">>        \* ten ASCII digits and a newline
PShort == <<"1", "2", "3", "4", "5">>
PLong == Rep("1", 11)
PAlpha == <<"a", "b", "c", "d", "e", "f", "g", "h", "i", "j">>

BLeap == <<"2", "9", ".", "0", "2", ".", "2", "0", "2", "0">>
BJune == <<"1", "2", ".", "0", "6", ".", "1", "9", "9", "0">>
BJanuary == <<"0", "1", ".", "0", "1", ".", "1", "9", "9", "0">>
BApril31 == <<"3", "1", ".", "0", "4", ".", "2", "0", "2", "0">>
BIso == <<"2", "0", "2", "0", "-", "0", "2", "-", "2", "9">>

Date(y, m, d) == [y |-> y, m |-> m, d |-> d]

\* values of datetime.today().date()
Todays ==
    { Date(2024, 6, 10), Date(2024, 6, 4), Date(2024, 6, 5), Date(2024, 6, 13),
      Date(2023, 12, 28), Date(2023, 2, 25), Date(2024, 2, 25), Date(2024, 3, 1) }

RECURSIVE Lists(_, _)
\* the lists of length n whose i-th element is drawn from pos[i] (from the
\* last set of pos beyond its length)
Lists(pos, n) ==
    IF n = 0 THEN {<<>>}
    ELSE {Append(l, w) : l \in Lists(pos, n - 1),
                         w \in pos[IF n <= Len(pos) THEN n ELSE Len(pos)]}

ArgLists(pos) == UNION {Lists(pos, n) : n \in 0..MaxArgs}

NameArgs == {Al, Bo, <<>>}

AddContactArgs == ArgLists(<<NameArgs, {P1, PArabic, PShort, <<>>}, {P1}>>)
ChangePhoneArgs == ArgLists(<<NameArgs, {P1, PArabic, PAlpha}, {P1, PArabic, PLong}, {P1}>>)
AddBirthdayArgs == ArgLists(<<NameArgs, {BLeap, BJune, BApril31, BIso}, {P1}>>)
NameOnlyArgs == ArgLists(<<NameArgs, {P1}>>)

\* The books a call starts from: what add-contact and add-birthday can have
\* built, with the phones Phone accepts and the dates Birthday parses.
StoredPhones == {p \in {P1, PArabic} : Phone_validate(p)}

StoredBirthdays ==
    {NoDate} \cup {Birthday(str).val : str \in {s \in {BLeap, BJune, BJanuary} : Birthday(s).exc = ""}}

PhoneLists == UNION {[1..n -> StoredPhones] : n \in 0..MaxBookPhones}

RecordsOf(name) ==
    {[name |-> name, phones |-> ps, birthday |-> d] : ps \in PhoneLists, d \in StoredBirthdays}

Books ==
    {<<>>}
    \cup {<<r>> : r \in RecordsOf(Al) \cup RecordsOf(Bo)}
    \cup {<<r1, r2>> : r1 \in RecordsOf(Al), r2 \in RecordsOf(Bo)}
    \cup {<<r1, r2>> : r1 \in RecordsOf(Bo), r2 \in RecordsOf(Al)}

-----------------------------------------------------------------------------
(* The state machine *)

Call(op, line, args, today, before, exc, out) ==
    [op |-> op, line |-> line, args |-> args, today |-> today, before |-> before,
     exc |-> exc, out |-> out]

NoCall == Call("", <<>>, <<>>, NoDate, <<>>, "", NoOut)

\* a book in memory; each behaviour makes one call on it
InitBook ==
    /\ book \in Books
    /\ rec = Record(Al).rec
    /\ pc = "lib"
    /\ file = NoFile
    /\ session = 1
    /\ inputs = 0
    /\ shutdown = <<>>
    /\ last = NoCall

(* Calls of the command layer on the book *)

\* a command's call: the book becomes what the command left
Command(op, args, today, r) ==
    /\ last = NoCall
    /\ book' = r.book
    /\ last' = Call(op, <<>>, args, today, book, r.exc, r.out)
    /\ UNCHANGED <<rec, pc, file, session, inputs, shutdown>>

CallAddContact ==
    \E args \in AddContactArgs : Command("add_contact", args, NoDate, add_contact(args, book))

CallChangePhone ==
    \E args \in ChangePhoneArgs :
        Command("change_phone", args, NoDate, change_phone(args, book))

CallShowPhones ==
    \E args \in NameOnlyArgs : Command("show_phones", args, NoDate, show_phones(args, book))

CallAddBirthday ==
    \E args \in AddBirthdayArgs :
        Command("add_birthday", args, NoDate, add_birthday(args, book))

CallShowBirthday ==
    \E args \in NameOnlyArgs :
        Command("show_birthday", args, NoDate, show_birthday(args, book))

CallBirthdays ==
    \E args \in NameOnlyArgs, today \in Todays :
        Command("birthdays", args, today, birthdays(args, book, today))

CallDeleteContact ==
    \E args \in NameOnlyArgs :
        Command("delete_contact", args, NoDate, delete_contact(args, book))

(* Direct calls of AddressBook.delete and get_upcoming_birthdays *)

CallDelete ==
    \E name \in NameArgs :
        LET r == AddressBook_delete(book, name)
        IN  /\ last = NoCall
            /\ book' = r.book
            /\ last' = Call("AddressBook.delete", <<>>, <<name>>, NoDate, book, r.exc, Str(r.msg))
            /\ UNCHANGED <<rec, pc, file, session, inputs, shutdown>>

CallGetUpcomingBirthdays ==
    \E today \in Todays :
        LET r == get_upcoming_birthdays(book, today)
        IN  /\ last = NoCall
            /\ last' = Call("get_upcoming_birthdays", <<>>, <<>>, today, book, r.exc,
                            [text |-> r.msg, phones |-> <<>>, recs |-> r.val])
            /\ UNCHANGED <<book, rec, pc, file, session, inputs, shutdown>>

NextBook ==
    \/ CallAddContact
    \/ CallChangePhone
    \/ CallShowPhones
    \/ CallAddBirthday
    \/ CallShowBirthday
    \/ CallBirthdays
    \/ CallDeleteContact
    \/ CallDelete
    \/ CallGetUpcomingBirthdays

SpecBook == InitBook /\ [][NextBook]_vars

(* Direct calls of the methods of one Record *)

RecordCall(op, args, r) ==
    /\ rec' = r.rec
    /\ last' = Call(op, <<>>, args, NoDate, <<rec>>, r.exc, Str(r.msg))
    /\ UNCHANGED <<book, pc, file, session, inputs, shutdown>>

InitRecord ==
    /\ book = <<>>
    /\ rec = Record(Al).rec
    /\ pc = "lib"
    /\ file = NoFile
    /\ session = 1
    /\ inputs = 0
    /\ shutdown = <<>>
    /\ last = NoCall

CallRecordAddPhone ==
    \E phone \in {P1, P2, PArabic, PNewline, PShort, PLong, PAlpha} :
        /\ Len(rec.phones) < MaxPhones
        /\ RecordCall("Record.add_phone", <<phone>>, Record_add_phone(rec, phone))

CallRecordRemovePhone ==
    \E phone \in {P1, P2, PShort} :
        RecordCall("Record.remove_phone", <<phone>>, Record_remove_phone(rec, phone))

CallRecordEditPhone ==
    \E old_phone \in {P1, P2, PShort}, new_phone \in {P1, P2, PArabic, PNewline, PLong, PAlpha} :
        RecordCall("Record.edit_phone", <<old_phone, new_phone>>,
                   Record_edit_phone(rec, old_phone, new_phone))

CallRecordFindPhone ==
    \E phone \in {P1, P2} :
        /\ last' = Call("Record.find_phone", <<>>, <<phone>>, NoDate, <<rec>>, "",
                        [text |-> "", phones |-> <<Record_find_phone(rec, phone)>>,
                         recs |-> <<>>])
        /\ UNCHANGED <<book, rec, pc, file, session, inputs, shutdown>>

CallRecordAddBirthday ==
    \E birthday \in {BLeap, BApril31} :
        RecordCall("Record.add_birthday", <<birthday>>, Record_add_birthday(rec, birthday))

NextRecord ==
    \/ CallRecordAddPhone
    \/ CallRecordRemovePhone
    \/ CallRecordEditPhone
    \/ CallRecordFindPhone
    \/ CallRecordAddBirthday

SpecRecord == InitRecord /\ [][NextRecord]_vars

(* The program: processes of main() run one after the other on one file *)

Line(words) == Join(words, <<" ">>)

W_bogus == <<"b", "o", "g", "u", "s">>

\* what the user types (input() returns the line without its newline)
Lines ==
    { Line(<<W_add, Al, P1>>), Line(<<W_add, Bo, PArabic>>), Line(<<W_add, Al>>),
      Line(<<W_change, Al, P1, PArabic>>), Line(<<W_phone, Al>>), Line(<<W_all>>),
      Line(<<W_add_birthday, Al, BJune>>), Line(<<W_show_birthday>>),
      Line(<<W_birthdays>>), Line(<<W_delete, Al>>),
      Line(<<W_hello>>), Line(<<W_bogus>>), <<>>, <<" ", "\t">>,
      Line(<<W_close>>), <<" ">> \o Line(<<W_exit, Al>>) \o <<" ">> }

MainTodays == {Date(2024, 6, 10), Date(2023, 2, 25)}

\* datetime.today() is read only by the birthdays command
TodayRead(user_input) ==
    LET words == parse_input(user_input)
    IN  IF words # <<>> /\ words[1] = W_birthdays THEN MainTodays ELSE {NoDate}

\* addressbook.pkl before the first process: absent, empty, or cut short
InitFiles ==
    { NoFile,
      [exists |-> TRUE, bytes |-> <<>>],
      [exists |-> TRUE,
       bytes |-> SubSeq(pickle_dump(<<Record(Al).rec>>), 1, 3)] }

Init ==
    /\ book = <<>>
    /\ rec = Record(Al).rec
    /\ pc = "start"
    /\ file \in InitFiles
    /\ session = 1
    /\ inputs = 0
    /\ shutdown = <<>>
    /\ last = NoCall

\* book = load_data()
Load ==
    /\ pc = "start"
    /\ LET r == load_data(file)
       IN  /\ book' = r.val
           /\ pc' = IF r.exc = "" THEN "loop" ELSE "crashed"
           /\ shutdown' = IF r.exc = "" THEN shutdown ELSE <<>>
           /\ last' = Call("load_data", <<>>, <<>>, NoDate, <<>>, r.exc, Str(r.msg))
    /\ UNCHANGED <<rec, file, session, inputs>>

\* one pass of the while loop
ReadLine ==
    /\ pc = "loop"
    /\ \E user_input \in Lines :
        \E today \in TodayRead(user_input) :
           \E r \in {main_loop(user_input, book, file, today)} :
               /\ inputs < MaxInputs \/ r.stop
               /\ book' = r.book
               /\ file' = r.file
               /\ pc' = IF r.exc # "" THEN "crashed" ELSE IF r.stop THEN "done" ELSE "loop"
               /\ shutdown' = IF r.exc = "" /\ r.stop THEN <<book>> ELSE <<>>
               /\ last' = Call("main_loop", user_input, parse_input(user_input), today,
                               book, r.exc, r.out)
    /\ inputs' = IF inputs < MaxInputs THEN inputs + 1 ELSE inputs
    /\ UNCHANGED <<rec, session>>

\* the program is run again
Restart ==
    /\ pc \in {"done", "crashed"}
    /\ session < MaxSessions
    /\ pc' = "start"
    /\ book' = <<>>
    /\ session' = session + 1
    /\ inputs' = 0
    /\ last' = NoCall
    /\ UNCHANGED <<rec, file, shutdown>>

Next == Load \/ ReadLine \/ Restart

Spec == Init /\ [][Next]_vars

-----------------------------------------------------------------------------
(* The claims *)

Names(b) == {b[i].name : i \in 1..Len(b)}

Entries(b) == {b[i] : i \in 1..Len(b)}

TenAsciiDigits(p) == Len(p) = 10 /\ \A i \in 1..Len(p) : p[i] \in AsciiDigits

\* C1: every phone stored in a record, after any calls of add_phone,
\* edit_phone and remove_phone, is exactly ten ASCII digits.
C1_StoredPhonesAreTenAsciiDigits ==
    /\ \A i \in 1..Len(rec.phones) : TenAsciiDigits(rec.phones[i])
    /\ \A k \in 1..Len(book) :
          \A i \in 1..Len(book[k].phones) : TenAsciiDigits(book[k].phones[i])

\* the next anniversary of birthday on or after today, as the claim words it
NextAnniversary(birthday, today) ==
    IF toordinal(Date(today.y, birthday.m, birthday.d)) < toordinal(today)
    THEN Date(today.y + 1, birthday.m, birthday.d)
    ELSE Date(today.y, birthday.m, birthday.d)

IsUpcoming(r, today) ==
    /\ r.birthday # NoDate
    /\ toordinal(today) <= toordinal(NextAnniversary(r.birthday, today))
    /\ toordinal(NextAnniversary(r.birthday, today)) <= toordinal(today) + 7

\* C2: for every book of valid birthdays and every today,
\* get_upcoming_birthdays returns, in book order, exactly the records whose
\* next anniversary lies in [today, today + 7 days], and leaves the book alone.
C2_UpcomingBirthdays ==
    last.op = "get_upcoming_birthdays" =>
        /\ last.exc = ""
        /\ last.out.recs = SelectSeq(last.before, LAMBDA r : IsUpcoming(r, last.today))
        /\ book = last.before

\* C3: edit_phone(old, new) replaces the first phone equal to old, and only
\* it, by new when new is a valid phone (ten ASCII digits); it fails with
\* "Phone number not found." when no phone equals old, fails when new is
\* invalid, and a failed call leaves the phones as they were.
C3_EditPhone ==
    last.op = "Record.edit_phone" =>
        LET before == last.before[1].phones
            after == rec.phones
            old == last.args[1]
            new == last.args[2]
            present == \E i \in 1..Len(before) : before[i] = old
        IN  /\ present /\ TenAsciiDigits(new) =>
                /\ last.exc = ""
                /\ Len(after) = Len(before)
                /\ \E k \in 1..Len(before) :
                      /\ before[k] = old
                      /\ \A j \in 1..(k - 1) : before[j] # old
                      /\ after[k] = new
                      /\ \A j \in 1..Len(before) : j # k => after[j] = before[j]
            /\ ~present =>
                /\ last.exc = "ValueError"
                /\ last.out.text = "Phone number not found."
                /\ after = before
            /\ ~TenAsciiDigits(new) => last.exc # "" /\ after = before

\* C4: delete(name) fails with "Record not found." and changes nothing when
\* name is absent; when present it removes that entry only: find(name) is
\* then None and every other entry is as it was.
C4_Delete ==
    last.op = "AddressBook.delete" =>
        LET name == last.args[1]
        IN  IF name \in Names(last.before)
            THEN /\ last.exc = ""
                 /\ AddressBook_find(book, name) = 0
                 /\ Len(book) = Len(last.before) - 1
                 /\ Entries(book) = {r \in Entries(last.before) : r.name # name}
            ELSE /\ last.exc = "ValueError"
                 /\ last.out.text = "Record not found."
                 /\ book = last.before

C4_Witness ==
    /\ last.op = "AddressBook.delete"
    /\ last.exc = ""
    /\ Len(last.before) = 2
    /\ Len(book) = 1

CommandOps ==
    {"add_contact", "change_phone", "show_phones", "add_birthday", "show_birthday",
     "birthdays", "delete_contact"}

\* C5: every command, on any argument list, returns a string: no exception
\* escapes it.
C5_CommandsReturnStrings ==
    last.op \in CommandOps => last.exc = "" /\ last.out.text # ""

C5_Witness ==
    /\ last.op = "show_phones"
    /\ last.args = <<>>
    /\ last.exc = ""
    /\ last.out.text = "list index out of range"

\* C6: load_data never fails to its caller: with no file, and with a file
\* that cannot be read back, it returns an empty AddressBook.
C6_LoadNeverFails ==
    last.op = "load_data" =>
        /\ last.exc = ""
        /\ pc = "loop"
        /\ (~file.exists \/ pickle_load(file.bytes).exc # "") => book = <<>>

SameContents(b1, b2) ==
    /\ Names(b1) = Names(b2)
    /\ \A i \in 1..Len(b1), j \in 1..Len(b2) :
          b1[i].name = b2[j].name =>
              /\ b1[i].phones = b2[j].phones
              /\ b1[i].birthday = b2[j].birthday

C8_PhoneOptional ==
    last.op = "add_contact" /\ Len(last.args) = 1 /\ last.args[1] # <<>> =>
        IF last.args[1] \in Names(last.before)
        THEN last.out.text = "Contact updated." /\ book = last.before
        ELSE /\ last.out.text = "Contact added."
             /\ book = Append(last.before,
                              [name |-> last.args[1], phones |-> <<>>, birthday |-> NoDate])

\* C9: a line other than close/exit gets a response and the loop reads on;
\* the loop ends only on close or exit, the book saved.
C9_NoInputIsFatal ==
    last.op = "main_loop" =>
        LET quit == last.args # <<>> /\ last.args[1] \in {W_close, W_exit}
        IN  /\ ~quit => pc = "loop" /\ last.exc = "" /\ last.out.text # ""
            /\ pc # "loop" => quit /\ file = [exists |-> TRUE, bytes |-> pickle_dump(book)]

SuccessMessages(op) ==
    CASE op = "add_contact" -> {"Contact added.", "Contact updated."}
      [] op = "change_phone" -> {"Phone number updated."}
      [] op = "add_birthday" -> {"Birthday added."}
      [] op = "delete_contact" -> {"Contact deleted."}

\* C10: add_contact, change_phone, add_birthday or delete_contact returning
\* an error message instead of its success message leaves the book as it was.
C10_ErrorLeavesBookUnchanged ==
    /\ last.op \in {"add_contact", "change_phone", "add_birthday", "delete_contact"}
    /\ last.out.text \notin SuccessMessages(last.op)
    => book = last.before

====
